---- MODULE Spec2Model ----
\* A model of bkk_departures.py: the stop resolver, the arrival extractor, the
\* board renderer and the poll loop of main().
\*
\* Time.  Python datetimes and timedeltas have microsecond resolution; here a
\* second is divided in TicksPerSec ticks.  A naive local datetime is the number
\* of ticks since the local epoch (datetime.fromtimestamp(0)), a timedelta a
\* number of ticks, a feed timestamp a number of whole seconds.
\* Text.  A text the program inspects character by character (stop names, the
\* query, formatted times) is a sequence: of one-character strings for names
\* and queries, of character codes for formatted times (their order matters).
\* Identifiers the program only compares for equality are TLA+ strings.
EXTENDS Integers, Sequences, FiniteSets, TLC

\* ------------------------------------------------------------------ bounds
TicksPerSec == 2
MaxEntities == 2
MaxStopTimes == 2
MaxEvents == 3
MaxQueryLen == 2

\* ------------------------------------------------------- program constants
TIME_WINDOW_MINUTES == 5

\* timedelta(minutes=m) and timedelta(seconds=s), in ticks
TimedeltaMinutes(m) == m * 60 * TicksPerSec
TimedeltaSeconds(s) == s * TicksPerSec

\* datetime.fromtimestamp(ts): the local datetime of a POSIX timestamp (seconds)
FromTimestamp(ts) == ts * TicksPerSec

\* ----------------------------------------------------------------- text
UpperCase == <<"A","B","C","D","E","F","G","H","I","J","K","L","M",
               "N","O","P","Q","R","S","T","U","V","W","X","Y","Z">>
LowerCase == <<"a","b","c","d","e","f","g","h","i","j","k","l","m",
               "n","o","p","q","r","s","t","u","v","w","x","y","z">>

\* str.lower() on one character
LowerChar(c) ==
  IF \E i \in 1..Len(UpperCase) : UpperCase[i] = c
  THEN LowerCase[CHOOSE i \in 1..Len(UpperCase) : UpperCase[i] = c]
  ELSE c

\* str.lower()
Lower(s) == [i \in 1..Len(s) |-> LowerChar(s[i])]

\* `needle in hay` for two str: a left-to-right scan for the first occurrence
RECURSIVE FindFrom(_, _, _)
FindFrom(needle, hay, i) ==
  IF i + Len(needle) - 1 > Len(hay) THEN FALSE
  ELSE IF SubSeq(hay, i, i + Len(needle) - 1) = needle THEN TRUE
  ELSE FindFrom(needle, hay, i + 1)

StrIn(needle, hay) == FindFrom(needle, hay, 1)

\* str.strip(): whitespace removed at both ends
RECURSIVE LStrip(_)
LStrip(s) == IF s # <<>> /\ Head(s) = " " THEN LStrip(Tail(s)) ELSE s

RECURSIVE RStrip(_)
RStrip(s) ==
  IF s # <<>> /\ s[Len(s)] = " " THEN RStrip(SubSeq(s, 1, Len(s) - 1)) ELSE s

Strip(s) == RStrip(LStrip(s))

\* Character codes of the formatted times: the digits, ':' and '.'
Digit(d) == 48 + d
Colon == 58
Dot == 46

\* "%02d" % n
TwoDigits(n) == <<Digit((n \div 10) % 10), Digit(n % 10)>>

\* "%d" % n, n >= 0
RECURSIVE Decimal(_)
Decimal(n) == IF n < 10 THEN <<Digit(n)>> ELSE Decimal(n \div 10) \o <<Digit(n % 10)>>

\* "%06d" % microseconds, for the microseconds a number of ticks stands for
SixDigits(us) ==
  <<Digit((us \div 100000) % 10), Digit((us \div 10000) % 10),
    Digit((us \div 1000) % 10), Digit((us \div 100) % 10),
    Digit((us \div 10) % 10), Digit(us % 10)>>

\* str(timedelta) for 0 <= td < 1 day: "H:MM:SS", then ".ffffff" when the
\* microseconds are not zero
TimedeltaStr(td) ==
  LET secs == td \div TicksPerSec
      frac == td % TicksPerSec
      hh == secs \div 3600
      mm == (secs \div 60) % 60
      ss == secs % 60
      hms == Decimal(hh) \o <<Colon>> \o TwoDigits(mm) \o <<Colon>> \o TwoDigits(ss)
  IN IF frac = 0 THEN hms
     ELSE hms \o <<Dot>> \o SixDigits((frac * 1000000) \div TicksPerSec)

\* s.split(".")[0]: the text before the first '.'
RECURSIVE SplitDotFirst(_)
SplitDotFirst(s) ==
  IF s = <<>> \/ Head(s) = Dot THEN <<>>
  ELSE <<Head(s)>> \o SplitDotFirst(Tail(s))

\* datetime.strftime("%H:%M:%S")
Strftime(dt) ==
  LET secs == (dt \div TicksPerSec) % 86400
  IN TwoDigits(secs \div 3600) \o <<Colon>> \o TwoDigits((secs \div 60) % 60)
       \o <<Colon>> \o TwoDigits(secs % 60)

\* a < b for two str: lexicographic by character code
RECURSIVE StrLess(_, _)
StrLess(a, b) ==
  IF b = <<>> THEN FALSE
  ELSE IF a = <<>> THEN TRUE
  ELSE IF Head(a) # Head(b) THEN Head(a) < Head(b)
  ELSE StrLess(Tail(a), Tail(b))

\* ------------------------------------------------- the reference catalog
\* load_gtfs_static_files: route_id -> route_short_name, and
\* stop_id -> the other columns of stops.txt
NoTable == <<>>

BkkRoutes == [r \in {"3040", "3060"} |-> IF r = "3040" THEN "4" ELSE "6"]

Zsigmond == <<"Z","s","i","g","m","o","n","d"," ","t","e","r">>
Margit == <<"M","a","r","g","i","t"," ","h","i","d">>

\* two platforms of one stop share its name, as in the BKK data
BkkStops ==
  [id \in {"F01", "F02", "F03"} |->
     CASE id = "F01" -> [stop_name |-> Zsigmond, location_type |-> 0]
       [] id = "F02" -> [stop_name |-> Zsigmond, location_type |-> 1]
       [] id = "F03" -> [stop_name |-> Margit, location_type |-> 0]]

\* catalogs over a small alphabet, for the resolver
SmallStops(names) ==
  [id \in {"A", "B", "C"} |->
     CASE id = "A" -> [stop_name |-> names[1], location_type |-> 0]
       [] id = "B" -> [stop_name |-> names[2], location_type |-> 0]
       [] id = "C" -> [stop_name |-> names[3], location_type |-> 1]]

ResolveCatalogs ==
  { SmallStops(<< <<"Z","s">>, <<"s","z","T">>, <<"t"," ","Z">> >>),
    SmallStops(<< <<"z","Z">>, <<"T","s","s">>, <<"S">> >>),
    BkkStops }

\* ---------------------------------------------------------- the resolver
\* find_stops_by_name without .lower() on the query
find_stops_case_sensitive(stops, query) ==
  LET hit == {id \in DOMAIN stops : StrIn(query, Lower(stops[id].stop_name))}
  IN [id \in hit |-> stops[id]]

\* find_stops_by_name, lines 43-45
find_stops_by_name(stops, query) ==
  LET hit == {id \in DOMAIN stops : StrIn(Lower(query), Lower(stops[id].stop_name))}
  IN [id \in hit |-> stops[id]]

\* --------------------------------------------------------------- the feed
\* A decoded FeedMessage: entity is a sequence; an unset message or scalar
\* field reads as its default (an empty TripUpdate, time 0).
StopTime(stop, secs) ==
  [stop_id |-> stop, arrival |-> [has_time |-> TRUE, time |-> secs]]
StopTimeNoArrival(stop) ==
  [stop_id |-> stop, arrival |-> [has_time |-> FALSE, time |-> 0]]

TripUpdate(route, sts) == [trip |-> [route_id |-> route], stop_time_update |-> sts]

TripEntity(route, sts) ==
  [has_trip_update |-> TRUE, trip_update |-> TripUpdate(route, sts)]
NoTripEntity ==
  [has_trip_update |-> FALSE, trip_update |-> TripUpdate("", <<>>)]

SeqsUpTo(S, n) == UNION {[1..k -> S] : k \in 0..n}

EntitiesOf(R, ST) ==
  {NoTripEntity} \cup {TripEntity(r, sts) : r \in R, sts \in SeqsUpTo(ST, MaxStopTimes)}

\* the stop-time events of a feed
RECURSIVE EventCount(_)
EventCount(fd) ==
  IF fd = <<>> THEN 0
  ELSE Len(Head(fd).trip_update.stop_time_update) + EventCount(Tail(fd))

\* feeds of at most MaxEntities entities, of at most MaxStopTimes events a
\* trip and MaxEvents events in all
FeedsOf(R, ST) ==
  {fd \in SeqsUpTo(EntitiesOf(R, ST), MaxEntities) : EventCount(fd) <= MaxEvents}

\* ----------------------------------------------------- the arrival extractor
\* line 60 without its HasField("time") test
IsRelevantNoTimeCheck(stop_time, selected) == stop_time.stop_id \in DOMAIN selected

\* line 60: the stop is one of the selected stops and the event has a time
IsRelevant(stop_time, selected) ==
  stop_time.stop_id \in DOMAIN selected /\ stop_time.arrival.has_time

\* line 65 with both ends excluded
InWindowExclusive(time_to_arrival) ==
  /\ TimedeltaSeconds(0) < time_to_arrival
  /\ time_to_arrival < TimedeltaMinutes(TIME_WINDOW_MINUTES)

\* line 65: the time window, both ends included
InWindow(time_to_arrival) ==
  /\ TimedeltaSeconds(0) <= time_to_arrival
  /\ time_to_arrival <= TimedeltaMinutes(TIME_WINDOW_MINUTES)

\* line 66 without the substitution for a blank route_id
RouteIdRaw(trip_update) == trip_update.trip.route_id

\* line 66: a blank route_id is falsy
RouteIdOf(trip_update) ==
  IF trip_update.trip.route_id # "" THEN trip_update.trip.route_id ELSE "Unknown Route"

\* line 67: dict.get with a default
TramNumber(routes, route_id) ==
  IF route_id \in DOMAIN routes THEN routes[route_id] ELSE "Unknown"

\* line 68 with the name taken from the feed's stop_id
HeadsignFromFeed(selected, stop_id) == <<stop_id>>

\* line 68
Headsign(selected, stop_id) == selected[stop_id].stop_name

\* line 75
TimeToArrivalStr(time_to_arrival) == SplitDotFirst(TimedeltaStr(time_to_arrival))

\* lines 61-76: the records one stop-time event appends (none or one)
RecordsOfStopTime(trip_update, stop_time, routes, selected, now) ==
  IF ~IsRelevant(stop_time, selected) THEN <<>>
  ELSE LET arrival_time == FromTimestamp(stop_time.arrival.time)
           time_to_arrival == arrival_time - now
       IN IF ~InWindow(time_to_arrival) THEN <<>>
          ELSE LET route_id == RouteIdOf(trip_update)
               IN << [tram_number |-> TramNumber(routes, route_id),
                      route_id |-> route_id,
                      stop_name |-> Headsign(selected, stop_time.stop_id),
                      arrival_time |-> Strftime(arrival_time),
                      time_to_arrival |-> TimeToArrivalStr(time_to_arrival)] >>

\* lines 56-76: the inner loop, from the k-th stop-time event on
RECURSIVE StopTimeLoop(_, _, _, _, _)
StopTimeLoop(trip_update, k, routes, selected, now) ==
  IF k > Len(trip_update.stop_time_update) THEN <<>>
  ELSE RecordsOfStopTime(trip_update, trip_update.stop_time_update[k],
                         routes, selected, now)
         \o StopTimeLoop(trip_update, k + 1, routes, selected, now)

\* lines 52-76: the outer loop, from the i-th entity on
RECURSIVE EntityLoop(_, _, _, _, _)
EntityLoop(fd, i, routes, selected, now) ==
  IF i > Len(fd) THEN <<>>
  ELSE (IF fd[i].has_trip_update
        THEN StopTimeLoop(fd[i].trip_update, 1, routes, selected, now)
        ELSE <<>>)
         \o EntityLoop(fd, i + 1, routes, selected, now)

\* the extractor appending a record only when the list does not hold it yet
RECURSIVE Dedup(_)
Dedup(xs) ==
  IF xs = <<>> THEN <<>>
  ELSE LET init == Dedup(SubSeq(xs, 1, Len(xs) - 1))
       IN IF \E i \in 1..Len(init) : init[i] = xs[Len(xs)] THEN init
          ELSE Append(init, xs[Len(xs)])

get_incoming_trams_dedup(fd, routes, selected, now) ==
  Dedup(EntityLoop(fd, 1, routes, selected, now))

get_incoming_trams(fd, routes, selected, now) == EntityLoop(fd, 1, routes, selected, now)

\* ------------------------------------------------------ the board renderer
\* line 84: the sort key
SortKey(tram) == tram.time_to_arrival

\* sorted(): stable, ascending by key; x goes after every element whose key
\* is not greater than its own
RECURSIVE InsertSorted(_, _)
InsertSorted(sorted, x) ==
  IF sorted = <<>> THEN <<x>>
  ELSE IF StrLess(SortKey(x), SortKey(Head(sorted))) THEN <<x>> \o sorted
  ELSE <<Head(sorted)>> \o InsertSorted(Tail(sorted), x)

RECURSIVE SortedFrom(_, _, _)
SortedFrom(xs, k, acc) ==
  IF k > Len(xs) THEN acc ELSE SortedFrom(xs, k + 1, InsertSorted(acc, xs[k]))

\* line 84 without the sort
Unsorted(xs) == xs

Sorted(xs) == SortedFrom(xs, 1, <<>>)

\* lines 87-92: the rows of the table
BoardTable(tr) ==
  LET sorted_trams == Sorted(tr)
  IN [i \in 1..Len(sorted_trams) |->
        <<sorted_trams[i].tram_number, sorted_trams[i].stop_name,
          sorted_trams[i].arrival_time, sorted_trams[i].time_to_arrival>>]

\* ---------------------------------------------------------------- main()
\* The locals of main(), its position (pc), what the terminal shows since it
\* was last cleared (screen) and the exception that ended the process (exc).
VARIABLES pc, routes_mapping, stops_mapping, stop_name_query, selected_stops,
          current_time, feed, trams, screen, exc

vars == <<pc, routes_mapping, stops_mapping, stop_name_query, selected_stops,
          current_time, feed, trams, screen, exc>>

CyclePcs == {"now", "fetch", "extract", "render", "sleep"}

\* datetime.now(): the local epoch second plus any fraction of a second
NowTicks == 0 .. (TicksPerSec - 1)

\* what the user may type at the prompt of a session
SessionInputs ==
  { <<"z","s","i","g","m","o","n","d">>,
    <<" ","M","a","r","g","i","t"," ">>,
    <<"T","E","R">>,
    <<"x">>,
    <<" ">> }

\* every line of at most MaxQueryLen characters over a small alphabet
BoundedInputs ==
  SeqsUpTo({"Z", "z", "s", "t", " "}, MaxQueryLen)
    \cup {<<"z","s","i","g","m","o","n","d">>}

\* the feeds the poll loop receives
LoopFeeds ==
  { <<>>,
    <<NoTripEntity>>,
    <<TripEntity("3040", <<StopTime("F01", 30), StopTime("F03", 120)>>)>>,
    <<TripEntity("", <<StopTime("F02", 240), StopTimeNoArrival("F01")>>),
      TripEntity("9999", <<StopTime("F01", 120), StopTime("F03", 0)>>)>>,
    <<TripEntity("3060", <<StopTime("F03", 300), StopTime("F01", 301)>>),
      NoTripEntity,
      TripEntity("3040", <<StopTime("F01", 0), StopTime("F01", 0)>>)>> }

\* the feeds of one cycle, family by family: the window's ends, stops in and
\* out of the selection with and without a time, three distinct arrival
\* times, and routes blank, known and unknown
WindowStopTimes == {StopTime("F01", 0), StopTime("F01", 300), StopTime("F01", 301)}
MixedStopTimes == {StopTime("F01", 30), StopTime("F03", 30), StopTimeNoArrival("F01")}
BoardStopTimes == {StopTime("F01", 240), StopTime("F02", 30), StopTime("F01", 120)}

CycleFeeds ==
  FeedsOf({"3040"}, WindowStopTimes) \cup FeedsOf({"3040"}, MixedStopTimes)
    \cup FeedsOf({"3040"}, BoardStopTimes)
    \cup FeedsOf({"", "3060", "9999"}, {StopTime("F02", 30)})

Init ==
  /\ pc = "load"
  /\ routes_mapping = NoTable
  /\ stops_mapping = NoTable
  /\ stop_name_query = <<>>
  /\ selected_stops = NoTable
  /\ current_time = 0
  /\ feed = <<>>
  /\ trams = <<>>
  /\ screen = <<>>
  /\ exc = "none"

\* lines 103-104
Load ==
  /\ pc = "load"
  /\ routes_mapping' = BkkRoutes
  /\ stops_mapping' = BkkStops
  /\ screen' = Append(screen, [kind |-> "loading"])
  /\ pc' = "input"
  /\ UNCHANGED <<stop_name_query, selected_stops, current_time, feed, trams, exc>>

\* lines 107-108: the line read at the prompt, stripped, and the stops it finds
Query(inputs) ==
  /\ pc = "input"
  /\ \E line \in inputs :
       /\ stop_name_query' = Strip(line)
       /\ selected_stops' = find_stops_by_name(stops_mapping, Strip(line))
  /\ pc' = "check"
  /\ UNCHANGED <<routes_mapping, stops_mapping, current_time, feed, trams, screen, exc>>

\* lines 111-113 without the return
NoStopsContinue ==
  /\ pc = "check"
  /\ DOMAIN selected_stops = {}
  /\ screen' = Append(screen, [kind |-> "no_stops", query |-> stop_name_query])
  /\ pc' = "now"
  /\ UNCHANGED <<routes_mapping, stops_mapping, stop_name_query, selected_stops,
                 current_time, feed, trams, exc>>

\* lines 111-113: no stop found: the message, and main() returns
NoStops ==
  /\ pc = "check"
  /\ DOMAIN selected_stops = {}
  /\ screen' = Append(screen, [kind |-> "no_stops", query |-> stop_name_query])
  /\ pc' = "exit"
  /\ UNCHANGED <<routes_mapping, stops_mapping, stop_name_query, selected_stops,
                 current_time, feed, trams, exc>>

\* lines 116-118: the stops found are listed
ListStops ==
  /\ pc = "check"
  /\ DOMAIN selected_stops # {}
  /\ screen' = Append(screen, [kind |-> "found", query |-> stop_name_query,
                               stops |-> DOMAIN selected_stops])
  /\ pc' = "now"
  /\ UNCHANGED <<routes_mapping, stops_mapping, stop_name_query, selected_stops,
                 current_time, feed, trams, exc>>

\* lines 123-126: the cycle samples the clock and announces the fetch
SampleNow ==
  /\ pc = "now"
  /\ \E t \in NowTicks : current_time' = t
  /\ screen' = Append(screen, [kind |-> "fetching"])
  /\ pc' = "fetch"
  /\ UNCHANGED <<routes_mapping, stops_mapping, stop_name_query, selected_stops,
                 feed, trams, exc>>

\* line 127, lines 33-38: the fetch and the decoding succeed
FetchOk(feeds) ==
  /\ pc = "fetch"
  /\ \E fd \in feeds : feed' = fd
  /\ pc' = "extract"
  /\ UNCHANGED <<routes_mapping, stops_mapping, stop_name_query, selected_stops,
                 current_time, trams, screen, exc>>

\* line 127, lines 35 and 37: requests.get or ParseFromString raises; main()
\* has no handler, so the exception leaves main() and ends the process
FetchFail ==
  /\ pc = "fetch"
  /\ \E e \in {"ConnectionError", "DecodeError"} : exc' = e
  /\ pc' = "crashed"
  /\ UNCHANGED <<routes_mapping, stops_mapping, stop_name_query, selected_stops,
                 current_time, feed, trams, screen>>

\* line 130
Extract ==
  /\ pc = "extract"
  /\ trams' = get_incoming_trams(feed, routes_mapping, selected_stops, current_time)
  /\ pc' = "render"
  /\ UNCHANGED <<routes_mapping, stops_mapping, stop_name_query, selected_stops,
                 current_time, feed, screen, exc>>

\* lines 133-141: the terminal is cleared, then the header and the board
Render ==
  /\ pc = "render"
  /\ screen' =
       << [kind |-> "header",
           stop_names |-> {selected_stops[id].stop_name : id \in DOMAIN selected_stops}],
          IF trams # <<>>
          THEN [kind |-> "board", table |-> BoardTable(trams)]
          ELSE [kind |-> "no_trams"] >>
  /\ pc' = "sleep"
  /\ UNCHANGED <<routes_mapping, stops_mapping, stop_name_query, selected_stops,
                 current_time, feed, trams, exc>>

\* line 144, with the clock sampled once before the loop
SleepKeepsClock ==
  /\ pc = "sleep"
  /\ pc' = "fetch"
  /\ UNCHANGED <<routes_mapping, stops_mapping, stop_name_query, selected_stops,
                 current_time, feed, trams, screen, exc>>

\* line 144, and back to the head of the loop
Sleep ==
  /\ pc = "sleep"
  /\ pc' = "now"
  /\ UNCHANGED <<routes_mapping, stops_mapping, stop_name_query, selected_stops,
                 current_time, feed, trams, screen, exc>>

Next ==
  \/ Load
  \/ Query(SessionInputs)
  \/ NoStops
  \/ ListStops
  \/ SampleNow
  \/ FetchOk(LoopFeeds)
  \/ FetchFail
  \/ Extract
  \/ Render
  \/ Sleep

\* the whole program
Spec == Init /\ [][Next]_vars

\* the resolver on every bounded query: the session from the prompt on, with
\* one of the catalogs loaded
InitResolve ==
  /\ pc = "input"
  /\ routes_mapping = BkkRoutes
  /\ stops_mapping \in ResolveCatalogs
  /\ stop_name_query = <<>>
  /\ selected_stops = NoTable
  /\ current_time = 0
  /\ feed = <<>>
  /\ trams = <<>>
  /\ screen = <<[kind |-> "loading"]>>
  /\ exc = "none"

NextResolve == Query(BoundedInputs) \/ NoStops \/ ListStops

SpecResolve == InitResolve /\ [][NextResolve]_vars

\* the extractor and the renderer on every bounded feed: the first cycle of a
\* session, from its fetch on
CycleQueries == {<<"z","s","i","g","m","o","n","d">>}

InitCycle ==
  /\ pc = "fetch"
  /\ routes_mapping = BkkRoutes
  /\ stops_mapping = BkkStops
  /\ stop_name_query \in CycleQueries
  /\ selected_stops = find_stops_by_name(stops_mapping, stop_name_query)
  /\ current_time \in NowTicks
  /\ feed = <<>>
  /\ trams = <<>>
  /\ screen = <<[kind |-> "loading"],
                [kind |-> "found", query |-> stop_name_query,
                 stops |-> DOMAIN selected_stops],
                [kind |-> "fetching"]>>
  /\ exc = "none"

NextCycle == FetchOk(CycleFeeds) \/ Extract \/ Render

SpecCycle == InitCycle /\ [][NextCycle]_vars

\* ------------------------------------------------------------- properties
\* What the properties speak of, stated on the feed itself.

HorizonTicks == TIME_WINDOW_MINUTES * 60 * TicksPerSec

\* the stop-time events of a feed in feed order (entity order, then the order
\* within the trip), each with the route_id of its trip
RECURSIVE FlatEvents(_)
FlatEvents(fd) ==
  IF fd = <<>> THEN <<>>
  ELSE LET e == Head(fd)
           sts == e.trip_update.stop_time_update
       IN (IF e.has_trip_update
           THEN [k \in 1..Len(sts) |->
                   [stop_id |-> sts[k].stop_id, has_time |-> sts[k].arrival.has_time,
                    time |-> sts[k].arrival.time,
                    route_id |-> e.trip_update.trip.route_id]]
           ELSE <<>>) \o FlatEvents(Tail(fd))

\* arrival minus now, in ticks
Duration(ev) == ev.time * TicksPerSec - current_time

\* the events the extractor is to keep
RetainedEvents ==
  LET Keep(ev) == /\ ev.stop_id \in DOMAIN selected_stops
                  /\ ev.has_time
                  /\ 0 <= Duration(ev)
                  /\ Duration(ev) <= HorizonTicks
  IN SelectSeq(FlatEvents(feed), Keep)

\* trams is the result of extracting feed at current_time
Extracted == pc \in {"render", "sleep"}

Range(f) == {f[i] : i \in DOMAIN f}

\* the seconds a text "H:MM:SS" stands for
RECURSIVE DigitsValue(_)
DigitsValue(s) ==
  IF s = <<>> THEN 0 ELSE 10 * DigitsValue(SubSeq(s, 1, Len(s) - 1)) + (s[Len(s)] - 48)

SecondsOfHMS(s) ==
  LET n == Len(s)
  IN 3600 * DigitsValue(SubSeq(s, 1, n - 6)) + 60 * DigitsValue(SubSeq(s, n - 4, n - 3))
       + DigitsValue(SubSeq(s, n - 1, n))

\* the arrival time a record shows for an event
ShownArrival(ev) == Strftime(FromTimestamp(ev.time))

\* C1: a fetch or decode failure in a cycle does not end the poll loop: from
\* the fetch step the program always stays in the cycle.
C1_FetchFailureKeepsLooping == [][pc = "fetch" => pc' \in CyclePcs]_vars

\* C2: every arrival record has 0 <= time_to_arrival <= horizon, both ends
\* included: an event at a selected stop with a time is shown exactly when
\* its duration lies in the window, and the duration a record shows lies in it.
C2_WindowInclusive ==
  Extracted =>
    /\ \A r \in Range(trams) :
         /\ 0 <= SecondsOfHMS(r.time_to_arrival)
         /\ SecondsOfHMS(r.time_to_arrival) <= TIME_WINDOW_MINUTES * 60
    /\ \A ev \in Range(FlatEvents(feed)) :
         (ev.stop_id \in DOMAIN selected_stops /\ ev.has_time) =>
           ( (0 <= Duration(ev) /\ Duration(ev) <= HorizonTicks)
             <=> \E r \in Range(trams) : r.arrival_time = ShownArrival(ev) )

C2_Witness ==
  /\ pc = "render"
  /\ \E ev \in Range(RetainedEvents) : Duration(ev) = 0
  /\ \E ev \in Range(RetainedEvents) : Duration(ev) = HorizonTicks
  /\ \E ev \in Range(FlatEvents(feed)) : Duration(ev) = HorizonTicks + TicksPerSec
  /\ Len(trams) = 2

\* C3 as stated: after an empty resolver result the session goes back to the
\* query step.
C3_EmptyResultRestartsQuery ==
  [][(pc = "check" /\ DOMAIN selected_stops = {}) => pc' \in {"check", "input"}]_vars

\* the step taken after an empty resolver result: the message, and the exit
EmptyResultStep ==
  (pc = "check" /\ DOMAIN selected_stops = {} /\ pc' # pc) =>
    /\ pc' = "exit"
    /\ screen'[Len(screen')] = [kind |-> "no_stops", query |-> stop_name_query]

\* C3 as amended: after an empty resolver result the condition is reported and
\* the program ends, for good; no poll cycle runs with an empty selection.
C3_EmptyResultEndsSession ==
  /\ [][EmptyResultStep]_vars
  /\ [][pc = "exit" => pc' = "exit"]_vars
  /\ [](pc \in CyclePcs => DOMAIN selected_stops # {})

C3_Witness ==
  /\ pc = "exit"
  /\ DOMAIN selected_stops = {}
  /\ screen[Len(screen)].kind = "no_stops"

\* a step of a cycle leaves the selection, its query and the catalog alone
CycleKeepsSelection ==
  pc \in CyclePcs =>
    /\ selected_stops' = selected_stops
    /\ stops_mapping' = stops_mapping
    /\ routes_mapping' = routes_mapping
    /\ stop_name_query' = stop_name_query

\* C4: the cycles never change the selection or the catalog, the selection is
\* the one the query chose, and every record comes from an event at a selected
\* stop and shows the catalog's name of that stop.
C4_SelectionFixed ==
  /\ [][CycleKeepsSelection]_vars
  /\ [](pc \in CyclePcs =>
          /\ DOMAIN selected_stops \subseteq DOMAIN stops_mapping
          /\ \A id \in DOMAIN selected_stops : selected_stops[id] = stops_mapping[id])
  /\ [](Extracted =>
          \A r \in Range(trams) :
            \E ev \in Range(FlatEvents(feed)) :
              /\ ev.stop_id \in DOMAIN selected_stops
              /\ ev.has_time
              /\ r.arrival_time = ShownArrival(ev)
              /\ r.stop_name = stops_mapping[ev.stop_id].stop_name)

\* a later cycle (the terminal still shows the last board) that kept an event
\* and dropped one at a catalog stop outside the selection
C4_Witness ==
  /\ pc = "render"
  /\ Len(screen) = 3
  /\ screen[1].kind = "header"
  /\ trams # <<>>
  /\ \E ev \in Range(FlatEvents(feed)) :
       /\ ev.stop_id \in DOMAIN stops_mapping \ DOMAIN selected_stops
       /\ ev.has_time
       /\ 0 <= Duration(ev)
       /\ Duration(ev) <= HorizonTicks

\* the rows of the board on the terminal
ShownTable == screen[2].table

\* the row of a record
RowOf(tram) ==
  <<tram.tram_number, tram.stop_name, tram.arrival_time, tram.time_to_arrival>>

\* how many times x occurs in the sequence xs
Occurrences(xs, x) == Cardinality({i \in 1..Len(xs) : xs[i] = x})

\* the duration of the records that show the text s as their time to arrival
DurationOfKey(s) ==
  Duration(RetainedEvents[CHOOSE k \in 1..Len(trams) : trams[k].time_to_arrival = s])

\* C5: the board shows the records, all of them, in ascending order of their
\* durations, and the text the sort compares orders any two records as their
\* durations do.
C5_BoardSortedByDuration ==
  (pc = "sleep" /\ screen[2].kind = "board") =>
    /\ Len(RetainedEvents) = Len(trams)
    /\ Len(ShownTable) = Len(trams)
    /\ \A i \in 1..Len(trams) :
         Occurrences(ShownTable, RowOf(trams[i]))
           = Occurrences([k \in 1..Len(trams) |-> RowOf(trams[k])], RowOf(trams[i]))
    /\ \A i, j \in 1..Len(trams) :
         /\ (Duration(RetainedEvents[i]) < Duration(RetainedEvents[j]))
              <=> StrLess(trams[i].time_to_arrival, trams[j].time_to_arrival)
         /\ (Duration(RetainedEvents[i]) = Duration(RetainedEvents[j]))
              <=> (trams[i].time_to_arrival = trams[j].time_to_arrival)
    /\ \A i, j \in 1..Len(ShownTable) :
         i < j => DurationOfKey(ShownTable[i][4]) <= DurationOfKey(ShownTable[j][4])

\* two minutes, thirty seconds, four minutes, shown in ascending order
C5_Witness ==
  /\ pc = "sleep"
  /\ screen[2].kind = "board"
  /\ [k \in 1..Len(trams) |-> SecondsOfHMS(trams[k].time_to_arrival)] = <<120, 30, 240>>
  /\ [k \in 1..Len(ShownTable) |-> SecondsOfHMS(ShownTable[k][4])] = <<30, 120, 240>>

CycleOrder ==
  [p \in CyclePcs |->
     CASE p = "now" -> "fetch"
       [] p = "fetch" -> "extract"
       [] p = "extract" -> "render"
       [] p = "render" -> "sleep"
       [] p = "sleep" -> "now"]

CycleStep ==
  (pc \in CyclePcs /\ pc' # pc) =>
    \* one position, moving through the steps in their order, or failing
    /\ pc' = CycleOrder[pc] \/ (pc = "fetch" /\ pc' = "crashed")
    \* rendering starts with the full list of the cycle's records
    /\ pc' = "render" =>
         /\ Len(trams') = Len(RetainedEvents)
         /\ feed' = feed /\ current_time' = current_time
    \* the wait starts with all of them on the terminal
    /\ pc' = "sleep" =>
         /\ trams' = trams
         /\ IF trams = <<>> THEN screen'[2].kind = "no_trams"
            ELSE /\ screen'[2].kind = "board"
                 /\ Len(screen'[2].table) = Len(trams)
    \* the wait changes nothing, and the next cycle starts by sampling the clock
    /\ pc = "sleep" => UNCHANGED <<feed, trams, screen, current_time>>

\* C6: the cycles are sequential: one position in the cycle at a time, its
\* steps in the order sample-now, fetch, extract, render, wait; the rendering
\* starts with the complete list of records and the wait after the rendering.
C6_CyclesSequential == [][CycleStep]_vars

C6_Witness ==
  /\ pc = "sleep"
  /\ Len(screen) = 2
  /\ screen[2].kind = "board"
  /\ Len(trams) >= 2
  /\ Len(ShownTable) = Len(trams)

\* C7: a retained event whose route_id is blank, or is not in the route
\* catalog, still gives its record, labelled "Unknown" (and with the route_id
\* "Unknown Route" when the id is blank).
C7_UnknownRouteKept ==
  Extracted =>
    /\ Len(trams) = Len(RetainedEvents)
    /\ \A i \in 1..Len(RetainedEvents) :
         LET r == RetainedEvents[i].route_id
         IN /\ r = "" =>
                 trams[i].route_id = "Unknown Route" /\ trams[i].tram_number = "Unknown"
            /\ (r # "" /\ r \notin DOMAIN routes_mapping) =>
                 trams[i].route_id = r /\ trams[i].tram_number = "Unknown"
            /\ r \in DOMAIN routes_mapping =>
                 trams[i].route_id = r /\ trams[i].tram_number = routes_mapping[r]

C7_Witness ==
  /\ pc = "render"
  /\ Len(trams) = 3
  /\ RetainedEvents[1].route_id = ""
  /\ trams[1].route_id = "Unknown Route" /\ trams[1].tram_number = "Unknown"
  /\ RetainedEvents[2].route_id = "9999"
  /\ trams[2].route_id = "9999" /\ trams[2].tram_number = "Unknown"
  /\ RetainedEvents[3].route_id = "9999"

\* the events of a feed that carry an arrival time
TimedEvents == SelectSeq(FlatEvents(feed), LAMBDA ev : ev.has_time)

\* C8: an event without an arrival time gives no record and no error: the
\* extraction always returns, every record shows the time of an event that
\* has one, there are no more records than such events, and a feed without
\* entities, or with none that has a stop-time event, gives no record.
C8_NoTimeNoRecord ==
  /\ pc = "extract" => ENABLED Extract
  /\ Extracted =>
       /\ Len(trams) <= Len(TimedEvents)
       /\ \A r \in Range(trams) :
            \E ev \in Range(TimedEvents) : r.arrival_time = ShownArrival(ev)
       /\ FlatEvents(feed) = <<>> => trams = <<>>

C8_Witness ==
  /\ pc = "render"
  /\ Len(trams) = 1
  /\ Len(FlatEvents(feed)) = 2
  /\ \E ev \in Range(FlatEvents(feed)) :
       ~ev.has_time /\ ev.stop_id \in DOMAIN selected_stops
  /\ \E e \in Range(feed) : ~e.has_trip_update

\* two characters are the same letter, whatever their case
SameLetter(a, b) ==
  a = b \/ \E i \in 1..Len(UpperCase) : {a, b} = {UpperCase[i], LowerCase[i]}

\* the query occurs in the name, case aside
OccursIn(query, name) ==
  \E off \in 0..(Len(name) - Len(query)) :
    \A k \in 1..Len(query) : SameLetter(query[k], name[off + k])

\* C9: the resolver returns exactly the catalog's stops whose name contains
\* the query, case aside, each with its catalog attributes; the empty set when
\* there is none.
C9_ResolverExact ==
  pc \in {"check", "exit", "now"} =>
    /\ DOMAIN selected_stops
         = {id \in DOMAIN stops_mapping : OccursIn(stop_name_query, stops_mapping[id].stop_name)}
    /\ \A id \in DOMAIN selected_stops : selected_stops[id] = stops_mapping[id]

C9_Witness ==
  /\ pc = "check"
  /\ stop_name_query = <<"z","s","i","g","m","o","n","d">>
  /\ DOMAIN selected_stops = {"F01", "F02"}
  /\ selected_stops["F01"].stop_name = Zsigmond

\* C10: the records are the retained events, one each, in feed order.
C10_OneRecordPerRetainedEvent ==
  Extracted =>
    /\ Len(trams) = Len(RetainedEvents)
    /\ \A i \in 1..Len(RetainedEvents) :
         LET ev == RetainedEvents[i]
         IN /\ trams[i].arrival_time = ShownArrival(ev)
            /\ SecondsOfHMS(trams[i].time_to_arrival) = Duration(ev) \div TicksPerSec
            /\ trams[i].stop_name = stops_mapping[ev.stop_id].stop_name
            /\ trams[i].route_id = (IF ev.route_id = "" THEN "Unknown Route" ELSE ev.route_id)

\* one trip with the same stop and time twice gives the same record twice
C10_Witness ==
  /\ pc = "render"
  /\ Len(feed) = 2
  /\ feed[1].has_trip_update
  /\ Len(feed[1].trip_update.stop_time_update) = 2
  /\ feed[1].trip_update.stop_time_update[1] = feed[1].trip_update.stop_time_update[2]
  /\ Len(trams) = 3
  /\ trams[1] = trams[2]
  /\ trams[3] # trams[1]

====
